---- MODULE Spec2Model ----
(***************************************************************************)
(* Model of the order service: the Order entity and its store operations   *)
(* (src/src/orders.rs), the axum handlers (src/src/main.rs) and the error  *)
(* to response mapping (src/src/error.rs).                                 *)
(*                                                                         *)
(* The database is the pair [rows, seq]: rows maps the rowid of every row  *)
(* of table orders to its (status TEXT, amount INTEGER) columns, seq is    *)
(* the largest rowid ever assigned (sqlite_sequence).  Every query takes   *)
(* a parameter fail: the engine's outcome, chosen by the environment.      *)
(***************************************************************************)
EXTENDS Integers, Sequences, FiniteSets, Bags, TLC

\* ------------------------------------------------------------------ bounds
\* Largest rowid the engine hands out in the model.
MaxSeq == 2
\* Largest number of PATCH requests suspended between their two queries.
MaxPending == 1

\* ------------------------------------------------------- values and inputs
\* Option<i64>: None is the empty sequence, Some(n) the sequence <<n>>
None == << >>
Some(n) == <<n>>
IsSome(o) == Len(o) = 1
Unwrap(o) == o[1]

\* enum OrderStatus, by discriminant
Pending == 0
InProgress == 1
Complete == 2
Canceled == 3
OrderStatus == {Pending, InProgress, Complete, Canceled}

\* impl Default for OrderStatus
OrderStatus_default == Pending

\* amounts used by the tests
Amounts == {500, 900}

\* an identifier the store never assigns within the bounds (the tests' 999)
NeverAssigned == MaxSeq + 997
PathIds == (1..MaxSeq) \cup {NeverAssigned}

\* JSON values of a request body: a key is absent, null, an integer or a string
JAbsent == [kind |-> "absent", int |-> 0, str |-> ""]
JNull == [kind |-> "null", int |-> 0, str |-> ""]
JInt(n) == [kind |-> "int", int |-> n, str |-> ""]
JStr(s) == [kind |-> "str", int |-> 0, str |-> s]

\* ------------------------------------------------------ status encodings
\* to_string with one string misspelt, so that From<String> does not read it back
OrderStatus_to_string_misspelt(s) ==
    CASE s = Pending -> "pending"
      [] s = InProgress -> "in_progress"
      [] s = Complete -> "complete"
      [] s = Canceled -> "canceled"

\* impl ToString for OrderStatus: the storage encoding
OrderStatus_to_string(s) ==
    CASE s = Pending -> "pending"
      [] s = InProgress -> "in-progress"
      [] s = Complete -> "complete"
      [] s = Canceled -> "canceled"

\* a decoder whose arm for "canceled" is missing
OrderStatus_from_no_canceled(value) ==
    CASE value = "pending" -> Pending
      [] value = "in-progress" -> InProgress
      [] value = "complete" -> Complete
      [] OTHER -> OrderStatus_default

\* impl From<String> for OrderStatus: decoding of the status column
OrderStatus_from(value) ==
    CASE value = "pending" -> Pending
      [] value = "in-progress" -> InProgress
      [] value = "complete" -> Complete
      [] value = "canceled" -> Canceled
      [] OTHER -> OrderStatus_default

\* #[derive(Serialize)] on OrderStatus: a unit variant is written as its name
OrderStatus_serialize(s) ==
    CASE s = Pending -> "Pending"
      [] s = InProgress -> "InProgress"
      [] s = Complete -> "Complete"
      [] s = Canceled -> "Canceled"

\* #[derive(Deserialize)] on OrderStatus: Some(variant of that name), or None
\* for serde's error "unknown variant"
OrderStatus_deserialize(str) ==
    CASE str = "Pending" -> Some(Pending)
      [] str = "InProgress" -> Some(InProgress)
      [] str = "Complete" -> Some(Complete)
      [] str = "Canceled" -> Some(Canceled)
      [] OTHER -> None

\* the four strings of the storage encoding, and the four names serde writes
LowerNames == {"pending", "in-progress", "complete", "canceled"}
VariantNames == {"Pending", "InProgress", "Complete", "Canceled"}

WireStatuses == {JStr(s) : s \in VariantNames \cup {"complete", "invalid status"}}
                  \cup {JAbsent}
WireAmounts == {JInt(a) : a \in Amounts} \cup {JStr("invalid amount")}
WireIds == {JAbsent, JNull} \cup {JInt(i) : i \in 1..MaxSeq}

\* request bodies of POST /orders and PATCH /orders/{id}; NoBody for GET, DELETE
PostBodies == [id : WireIds, amount : WireAmounts, status : WireStatuses]
PatchBodies == [id : {JAbsent}, amount : {JAbsent}, status : WireStatuses]
NoBody == [id |-> JAbsent, amount |-> JAbsent, status |-> JAbsent]

\* ------------------------------------------------------------ the store
\* A database is [rows |-> function rowid -> [status, amount], seq |-> Nat].
EmptyDb == [rows |-> << >>, seq |-> 0]

Row(status, amount) == [status |-> status, amount |-> amount]

\* orders.id INTEGER PRIMARY KEY AUTOINCREMENT: one more than the largest
\* rowid that was ever assigned in this table
NextRowId(db) == db.seq + 1

\* INSERT INTO orders (status, amount) VALUES (?, ?)
SqlInsert(db, status, amount) ==
    LET id == NextRowId(db)
    IN  [db |-> [rows |-> (id :> Row(status, amount)) @@ db.rows, seq |-> id],
         last_insert_rowid |-> id]

\* an update that inserts the row when no row has the id (INSERT OR REPLACE)
SqlUpdate_upsert(db, status, amount, id) ==
    [db EXCEPT !.rows = (id :> Row(status, amount)) @@ db.rows]

\* an update without its where clause: every row is written
SqlUpdate_no_where(db, status, amount, id) ==
    [db EXCEPT !.rows = [i \in DOMAIN db.rows |-> Row(status, amount)]]

\* update orders set status = ?, amount = ? where id = ?
SqlUpdate(db, status, amount, id) ==
    [db EXCEPT !.rows = [i \in DOMAIN db.rows |->
                           IF i = id THEN Row(status, amount) ELSE db.rows[i]]]

\* the Order that query_as!(Order, ..) builds from a row
FromRow(id, row) ==
    [id |-> Some(id), amount |-> row.amount, status |-> OrderStatus_from(row.status)]

\* Order::new
Order_new(amount) ==
    [id |-> None, amount |-> amount, status |-> OrderStatus_default]

\* save that inserts and forgets to set self.id from last_insert_rowid
Order_save_keeps_none(self, db, fail) ==
    LET status == OrderStatus_to_string(self.status)
    IN  IF fail
        THEN [ok |-> FALSE, self |-> self, db |-> db]
        ELSE IF self.id = None
        THEN [ok |-> TRUE, self |-> self,
              db |-> SqlInsert(db, status, self.amount).db]
        ELSE [ok |-> TRUE, self |-> self,
              db |-> SqlUpdate(db, status, self.amount, Unwrap(self.id))]

\* Order::save: [ok, self (the order afterwards), db (the database afterwards)]
Order_save(self, db, fail) ==
    LET status == OrderStatus_to_string(self.status)
    IN  IF self.id = None
        THEN IF fail
             THEN [ok |-> FALSE, self |-> self, db |-> db]
             ELSE LET result == SqlInsert(db, status, self.amount)
                  IN  [ok |-> TRUE,
                       self |-> [self EXCEPT !.id = Some(result.last_insert_rowid)],
                       db |-> result.db]
        ELSE IF fail
             THEN [ok |-> FALSE, self |-> self, db |-> db]
             ELSE [ok |-> TRUE, self |-> self,
                   db |-> SqlUpdate(db, status, self.amount, Unwrap(self.id))]

\* Order::get_by_id: [ok, found, value]
Order_get_by_id(db, id, fail) ==
    IF fail
    THEN [ok |-> FALSE, found |-> FALSE, value |-> Order_new(0)]
    ELSE IF id \in DOMAIN db.rows
         THEN [ok |-> TRUE, found |-> TRUE, value |-> FromRow(id, db.rows[id])]
         ELSE [ok |-> TRUE, found |-> FALSE, value |-> Order_new(0)]

\* the rows of a table scan, in rowid order
RECURSIVE Scan(_, _)
Scan(db, from) ==
    IF from > db.seq THEN << >>
    ELSE IF from \in DOMAIN db.rows
         THEN <<FromRow(from, db.rows[from])>> \o Scan(db, from + 1)
         ELSE Scan(db, from + 1)

\* get_all that fetches one row at most (fetch_optional for fetch_all)
Order_get_all_fetch_one(db, fail) ==
    IF fail THEN [ok |-> FALSE, value |-> << >>]
    ELSE [ok |-> TRUE,
          value |-> IF Scan(db, 1) = << >> THEN << >> ELSE <<Head(Scan(db, 1))>>]

\* Order::get_all: [ok, value]
Order_get_all(db, fail) ==
    IF fail THEN [ok |-> FALSE, value |-> << >>]
    ELSE [ok |-> TRUE, value |-> Scan(db, 1)]

\* Order::delete_by_id: [ok, value (a row was deleted), db]
Order_delete_by_id(db, id, fail) ==
    IF fail
    THEN [ok |-> FALSE, value |-> FALSE, db |-> db]
    ELSE [ok |-> TRUE, value |-> id \in DOMAIN db.rows,
          db |-> [db EXCEPT !.rows = [i \in DOMAIN db.rows \ {id} |-> db.rows[i]]]]

\* ------------------------------------------------- wire decoding, responses
\* #[derive(Serialize)] on Order: the JSON object of a response
Order_serialize(order) ==
    [id |-> order.id, amount |-> order.amount,
     status |-> OrderStatus_serialize(order.status)]

\* #[derive(Deserialize)] on Order: id is an Option (absent or null is None),
\* amount and status are required; [ok, value, error]
Order_deserialize(body) ==
    LET status == IF body.status.kind = "str"
                  THEN OrderStatus_deserialize(body.status.str) ELSE None
    IN  IF body.amount.kind \notin {"int", "absent"}
        THEN [ok |-> FALSE, value |-> Order_new(0), error |-> "amount: invalid type"]
        ELSE IF body.status.kind \notin {"str", "absent"} \/
                (body.status.kind = "str" /\ status = None)
        THEN [ok |-> FALSE, value |-> Order_new(0), error |-> "status: unknown variant"]
        ELSE IF body.amount.kind = "absent"
        THEN [ok |-> FALSE, value |-> Order_new(0), error |-> "missing field amount"]
        ELSE IF body.status.kind = "absent"
        THEN [ok |-> FALSE, value |-> Order_new(0), error |-> "missing field status"]
        ELSE [ok |-> TRUE,
              value |-> [id |-> IF body.id.kind = "int" THEN Some(body.id.int) ELSE None,
                         amount |-> body.amount.int,
                         status |-> Unwrap(status)],
              error |-> ""]

\* decoding of the PATCH body that reads the status as the status column is
\* read, an unknown string becoming the default
UpdateOrderStatusRequest_deserialize_defaulting(body) ==
    IF body.status.kind = "absent"
    THEN [ok |-> FALSE, status |-> OrderStatus_default, error |-> "missing field status"]
    ELSE [ok |-> TRUE, status |-> OrderStatus_from(body.status.str), error |-> ""]

\* #[derive(Deserialize)] on UpdateOrderStatusRequest; [ok, status, error]
UpdateOrderStatusRequest_deserialize(body) ==
    LET status == IF body.status.kind = "str"
                  THEN OrderStatus_deserialize(body.status.str) ELSE None
    IN  IF body.status.kind = "absent"
        THEN [ok |-> FALSE, status |-> OrderStatus_default, error |-> "missing field status"]
        ELSE IF status = None
        THEN [ok |-> FALSE, status |-> OrderStatus_default, error |-> "status: unknown variant"]
        ELSE [ok |-> TRUE, status |-> Unwrap(status), error |-> ""]

\* HTTP responses: a status code and a body (orders as JSON, a text, or empty)
Response(code, kind, orders, text) ==
    [code |-> code, kind |-> kind, orders |-> orders, text |-> text]

\* Json<Order>
OkOrder(order) == Response(200, "order", <<Order_serialize(order)>>, "")

\* Json<Vec<Order>>
OkOrders(orders) ==
    Response(200, "orders", [i \in 1..Len(orders) |-> Order_serialize(orders[i])], "")

\* Ok(())
OkEmpty == Response(200, "empty", << >>, "")

\* the Json extractor's rejection of a body serde cannot decode
JsonRejection(error) == Response(422, "text", << >>, error)

\* impl IntoResponse for CustomError
RecordNotFound == Response(404, "text", << >>, "404 Record not found")
Other == Response(500, "text", << >>, "Something went wrong!")

\* one query as a handler issued it
Op(name, ok) == [op |-> name, ok |-> ok]

\* ---------------------------------------------------------------- handlers
\* Each handler is a function of the database, the request and the engine's
\* outcomes: [resp, db (afterwards), ops (the queries it issued, in order)].

\* get_orders that answers a failed query with an empty list
get_orders_unwrap_or_default(db, fail) ==
    LET orders == Order_get_all(db, fail)
    IN  [resp |-> OkOrders(orders.value),
         db |-> db, ops |-> <<Op("get_all", orders.ok)>>]

\* GET /orders
get_orders(db, fail) ==
    LET orders == Order_get_all(db, fail)
    IN  [resp |-> IF orders.ok THEN OkOrders(orders.value) ELSE Other,
         db |-> db, ops |-> <<Op("get_all", orders.ok)>>]

\* get_order_by_id that treats an absent row as a failure
get_order_by_id_none_is_error(db, id, fail) ==
    LET r == Order_get_by_id(db, id, fail)
    IN  [resp |-> IF r.ok /\ r.found THEN OkOrder(r.value) ELSE Other,
         db |-> db, ops |-> <<Op("get_by_id", r.ok)>>]

\* GET /orders/{id}
get_order_by_id(db, id, fail) ==
    LET r == Order_get_by_id(db, id, fail)
    IN  [resp |-> IF ~r.ok THEN Other
                  ELSE IF r.found THEN OkOrder(r.value) ELSE RecordNotFound,
         db |-> db, ops |-> <<Op("get_by_id", r.ok)>>]

\* POST /orders
create_order(db, body, fail) ==
    LET json == Order_deserialize(body)
        saved == Order_save(json.value, db, fail)
    IN  IF ~json.ok
        THEN [resp |-> JsonRejection(json.error), db |-> db, ops |-> << >>]
        ELSE [resp |-> IF saved.ok THEN OkOrder(saved.self) ELSE Other,
              db |-> saved.db, ops |-> <<Op("save", saved.ok)>>]

\* the first half of PATCH without the assignment order.status = body.status
update_order_status_fetch_keeps_status(db, id, body, fail) ==
    LET json == UpdateOrderStatusRequest_deserialize(body)
        r == Order_get_by_id(db, id, fail)
    IN  IF ~json.ok
        THEN [done |-> TRUE, resp |-> JsonRejection(json.error),
              order |-> r.value, ops |-> << >>]
        ELSE IF ~r.ok
        THEN [done |-> TRUE, resp |-> Other, order |-> r.value,
              ops |-> <<Op("get_by_id", FALSE)>>]
        ELSE IF ~r.found
        THEN [done |-> TRUE, resp |-> RecordNotFound, order |-> r.value,
              ops |-> <<Op("get_by_id", TRUE)>>]
        ELSE [done |-> FALSE, resp |-> OkEmpty, order |-> r.value,
              ops |-> <<Op("get_by_id", TRUE)>>]

\* a first half of PATCH that refuses to change a Complete or Canceled order
update_order_status_fetch_terminal(db, id, body, fail) ==
    LET json == UpdateOrderStatusRequest_deserialize(body)
        r == Order_get_by_id(db, id, fail)
    IN  IF ~json.ok
        THEN [done |-> TRUE, resp |-> JsonRejection(json.error),
              order |-> r.value, ops |-> << >>]
        ELSE IF ~r.ok
        THEN [done |-> TRUE, resp |-> Other, order |-> r.value,
              ops |-> <<Op("get_by_id", FALSE)>>]
        ELSE IF ~r.found
        THEN [done |-> TRUE, resp |-> RecordNotFound, order |-> r.value,
              ops |-> <<Op("get_by_id", TRUE)>>]
        ELSE IF r.value.status \in {Complete, Canceled}
        THEN [done |-> TRUE, resp |-> Other, order |-> r.value,
              ops |-> <<Op("get_by_id", TRUE)>>]
        ELSE [done |-> FALSE, resp |-> OkEmpty,
              order |-> [r.value EXCEPT !.status = json.status],
              ops |-> <<Op("get_by_id", TRUE)>>]

\* PATCH /orders/{id} up to the end of its get_by_id:
\* [done (a response was produced), resp, order (to be saved), ops]
update_order_status_fetch(db, id, body, fail) ==
    LET json == UpdateOrderStatusRequest_deserialize(body)
        r == Order_get_by_id(db, id, fail)
    IN  IF ~json.ok
        THEN [done |-> TRUE, resp |-> JsonRejection(json.error),
              order |-> r.value, ops |-> << >>]
        ELSE IF ~r.ok
        THEN [done |-> TRUE, resp |-> Other, order |-> r.value,
              ops |-> <<Op("get_by_id", FALSE)>>]
        ELSE IF ~r.found
        THEN [done |-> TRUE, resp |-> RecordNotFound, order |-> r.value,
              ops |-> <<Op("get_by_id", TRUE)>>]
        ELSE [done |-> FALSE, resp |-> OkEmpty,
              order |-> [r.value EXCEPT !.status = json.status],
              ops |-> <<Op("get_by_id", TRUE)>>]

\* the second half of PATCH reading the order back after its save
update_order_status_save_rereads(db, order, fail) ==
    LET saved == Order_save(order, db, fail)
        r == Order_get_by_id(saved.db, Unwrap(order.id), FALSE)
    IN  [resp |-> IF saved.ok THEN OkEmpty ELSE Other,
         db |-> saved.db,
         ops |-> IF saved.ok THEN <<Op("save", TRUE), Op("get_by_id", r.ok)>>
                 ELSE <<Op("save", FALSE)>>]

\* PATCH /orders/{id} from its save on
update_order_status_save(db, order, fail) ==
    LET saved == Order_save(order, db, fail)
    IN  [resp |-> IF saved.ok THEN OkEmpty ELSE Other,
         db |-> saved.db, ops |-> <<Op("save", saved.ok)>>]

\* PATCH /orders/{id}, run without interruption
update_order_status(db, id, body, fail1, fail2) ==
    LET a == update_order_status_fetch(db, id, body, fail1)
        b == update_order_status_save(db, a.order, fail2)
    IN  IF a.done
        THEN [resp |-> a.resp, db |-> db, ops |-> a.ops]
        ELSE [resp |-> b.resp, db |-> b.db, ops |-> a.ops \o b.ops]

\* delete_order with the two arms of its match exchanged
delete_order_arms_swapped(db, id, fail) ==
    LET r == Order_delete_by_id(db, id, fail)
    IN  [resp |-> IF ~r.ok THEN Other
                  ELSE IF r.value THEN RecordNotFound ELSE OkEmpty,
         db |-> r.db, ops |-> <<Op("delete_by_id", r.ok)>>]

\* DELETE /orders/{id}
delete_order(db, id, fail) ==
    LET r == Order_delete_by_id(db, id, fail)
    IN  [resp |-> IF ~r.ok THEN Other
                  ELSE IF r.value THEN OkEmpty ELSE RecordNotFound,
         db |-> r.db, ops |-> <<Op("delete_by_id", r.ok)>>]

\* ------------------------------------------------------------ the system
VARIABLES
    rows,       \* table orders: rowid -> [status, amount]
    seq,        \* the largest rowid ever assigned
    assigned,   \* history: every rowid that has ever had a row
    pending,    \* the PATCH requests suspended between get_by_id and save
    last,       \* the response sent by the latest step: [method, code, existed]
    codec       \* one run of the status codec: its inputs and what it produced

vars == <<rows, seq, assigned, pending, last, codec>>

\* texts the status column may hold: the four encodings, the variant names,
\* other spellings, the empty text
ColumnTexts ==
    LowerNames \cup VariantNames
    \cup {"", "PENDING", "in_progress", "inprogress", "completed", "cancelled",
          "invalid status"}

\* the inputs of a codec run: two statuses to encode and one text to decode
CodecRun(status, other, text) ==
    [status |-> status, other |-> other, text |-> text,
     encoded |-> << >>, decoded |-> None, back |-> None]

CodecIdle == CodecRun(OrderStatus_default, OrderStatus_default, "pending")

Db == [rows |-> rows, seq |-> seq]

\* what is kept of a request and its response: the method, the status code,
\* and whether the id the request named had a row when the request arrived
Sent(method, existed, resp) ==
    [method |-> method, code |-> resp.code, existed |-> existed]

\* no response yet, or the latest step only suspended a request
NoRequest == [method |-> "none", code |-> 0, existed |-> FALSE]

\* the id of a path has a row
Exists(id) == id \in DOMAIN rows

\* the id of a body, if it has one, has a row
BodyIdExists(body) == body.id.kind = "int" /\ body.id.int \in DOMAIN rows

Init ==
    /\ rows = EmptyDb.rows
    /\ seq = EmptyDb.seq
    /\ assigned = {}
    /\ pending = EmptyBag
    /\ last = NoRequest
    /\ codec = CodecIdle

\* the outcomes the engine may choose for a handler's queries: none when the
\* body is rejected before the handler runs
Outcomes(decoded) == IF decoded THEN BOOLEAN ELSE {FALSE}

\* the handler's result r is committed and its response sent
Respond(method, existed, r) ==
    /\ r.db.seq <= MaxSeq
    /\ rows' = r.db.rows
    /\ seq' = r.db.seq
    /\ assigned' = assigned \cup DOMAIN r.db.rows
    /\ last' = Sent(method, existed, r.resp)
    /\ UNCHANGED codec

GetOrders ==
    \E fail \in BOOLEAN :
        /\ Respond("GET", FALSE, get_orders(Db, fail))
        /\ UNCHANGED pending

GetOrderById ==
    \E id \in PathIds, fail \in BOOLEAN :
        /\ Respond("GET", Exists(id), get_order_by_id(Db, id, fail))
        /\ UNCHANGED pending

CreateOrder ==
    \E body \in PostBodies :
        \E fail \in Outcomes(Order_deserialize(body).ok) :
            /\ Respond("POST", BodyIdExists(body), create_order(Db, body, fail))
            /\ UNCHANGED pending

UpdateOrderStatus ==
    \E id \in PathIds, body \in PatchBodies :
        \E fail1 \in Outcomes(UpdateOrderStatusRequest_deserialize(body).ok) :
            \E fail2 \in Outcomes(~update_order_status_fetch(Db, id, body, fail1).done) :
                /\ Respond("PATCH", Exists(id), update_order_status(Db, id, body, fail1, fail2))
                /\ UNCHANGED pending

DeleteOrder ==
    \E id \in PathIds, fail \in BOOLEAN :
        /\ Respond("DELETE", Exists(id), delete_order(Db, id, fail))
        /\ UNCHANGED pending

\* a PATCH runs up to the await of its get_by_id: it responds (422, 500, 404)
\* or is suspended holding the fetched order with the new status
UpdateFetch ==
    \E id \in PathIds, body \in PatchBodies :
        \E fail \in Outcomes(UpdateOrderStatusRequest_deserialize(body).ok) :
            LET a == update_order_status_fetch(Db, id, body, fail)
            IN  IF a.done
                THEN /\ Respond("PATCH", Exists(id), [resp |-> a.resp, db |-> Db, ops |-> a.ops])
                     /\ UNCHANGED pending
                ELSE /\ BagCardinality(pending) < MaxPending
                     /\ pending' = pending (+) SetToBag({[order |-> a.order, ops |-> a.ops]})
                     /\ last' = NoRequest
                     /\ UNCHANGED <<rows, seq, assigned, codec>>

\* a suspended PATCH resumes: it saves the order it holds and responds
UpdateSave ==
    \E t \in BagToSet(pending), fail \in BOOLEAN :
        LET b == update_order_status_save(Db, t.order, fail)
        IN  /\ Respond("PATCH", TRUE,
                       [resp |-> b.resp, db |-> b.db, ops |-> t.ops \o b.ops])
            /\ pending' = pending (-) SetToBag({t})

\* requests handled one at a time
Next ==
    \/ GetOrders
    \/ GetOrderById
    \/ CreateOrder
    \/ UpdateOrderStatus
    \/ DeleteOrder

Spec == Init /\ [][Next]_vars

\* requests handled concurrently: a PATCH may be suspended between its queries
ConcNext ==
    \/ GetOrders
    \/ GetOrderById
    \/ CreateOrder
    \/ UpdateFetch
    \/ UpdateSave
    \/ DeleteOrder

ConcSpec == Init /\ [][ConcNext]_vars

\* ------------------------------------------------- the status codec alone
CodecInit ==
    /\ rows = EmptyDb.rows
    /\ seq = EmptyDb.seq
    /\ assigned = {}
    /\ pending = EmptyBag
    /\ last = NoRequest
    /\ codec \in {CodecRun(s, o, t) : s \in OrderStatus, o \in OrderStatus,
                                      t \in ColumnTexts}

\* status.to_string() of both statuses, as save binds it
Encode ==
    /\ codec.encoded = << >>
    /\ codec' = [codec EXCEPT !.encoded = <<OrderStatus_to_string(codec.status),
                                            OrderStatus_to_string(codec.other)>>]
    /\ UNCHANGED <<rows, seq, assigned, pending, last>>

\* OrderStatus::from(text) of the column text, as FromRow does
Decode ==
    /\ codec.decoded = None
    /\ codec' = [codec EXCEPT !.decoded = Some(OrderStatus_from(codec.text))]
    /\ UNCHANGED <<rows, seq, assigned, pending, last>>

\* OrderStatus::from of the text that to_string produced
DecodeEncoded ==
    /\ codec.encoded # << >>
    /\ codec.back = None
    /\ codec' = [codec EXCEPT !.back = Some(OrderStatus_from(codec.encoded[1]))]
    /\ UNCHANGED <<rows, seq, assigned, pending, last>>

CodecNext ==
    \/ Encode
    \/ Decode
    \/ DecodeEncoded

CodecSpec == CodecInit /\ [][CodecNext]_vars

\* ------------------------------------------------------------- properties
\* the JSON text serde_json::to_string writes for an order, read back as a body
BodyOf(order) ==
    [id |-> IF IsSome(order.id) THEN JInt(Unwrap(order.id)) ELSE JNull,
     amount |-> JInt(order.amount),
     status |-> JStr(OrderStatus_serialize(order.status))]

\* the JSON text of an UpdateOrderStatusRequest
PatchBodyOf(status) ==
    [id |-> JAbsent, amount |-> JAbsent, status |-> JStr(OrderStatus_serialize(status))]

\* db2 is db with exactly the row id added, every row of db as it was
AddsOneRow(db, db2, id) ==
    /\ id \notin DOMAIN db.rows
    /\ DOMAIN db2.rows = DOMAIN db.rows \cup {id}
    /\ \A i \in DOMAIN db.rows : db2.rows[i] = db.rows[i]

\* an order never saved, with the given amount and status
Unsaved(amount, status) == [Order_new(amount) EXCEPT !.status = status]

\* C1: in every reachable store state, a save (that the engine carries out) of
\* an order without id adds exactly one row holding the order's amount and
\* status, sets order.id to a rowid that no row ever had, deleted rows included,
\* and leaves every existing row as it was; Order::new gives status Pending.
C1_SaveInsertsFresh ==
    \A a \in Amounts, s \in OrderStatus :
        LET r == Order_save(Unsaved(a, s), Db, FALSE)
        IN  /\ Order_new(a) = [id |-> None, amount |-> a, status |-> Pending]
            /\ create_order(Db, BodyOf(Unsaved(a, s)), FALSE).resp = OkOrder(r.self)
            /\ r.ok
            /\ IsSome(r.self.id)
            /\ Unwrap(r.self.id) \notin assigned
            /\ AddsOneRow(Db, r.db, Unwrap(r.self.id))
            /\ r.db.rows[Unwrap(r.self.id)] = Row(OrderStatus_to_string(s), a)
            /\ r.self.amount = a /\ r.self.status = s

\* C1 witness: a POST without id has just been answered 200, the newest row is
\* Pending, and a rowid assigned earlier has lost its row
C1_Witness ==
    /\ last = [method |-> "POST", code |-> 200, existed |-> FALSE]
    /\ seq \in DOMAIN rows
    /\ rows[seq].status = "pending"
    /\ \E j \in assigned : j \notin DOMAIN rows /\ j < seq

\* C2: saving an order (without id, or with the id of an existing row) and then
\* get_by_id with the order's id returns Some(order) with that id, amount and
\* status, for every amount and each of the four statuses.
C2_SaveGetRoundTrip ==
    \A a \in Amounts, s \in OrderStatus :
        \A id \in {None} \cup {Some(i) : i \in DOMAIN rows} :
            LET order == [id |-> id, amount |-> a, status |-> s]
                r == Order_save(order, Db, FALSE)
                g == Order_get_by_id(r.db, Unwrap(r.self.id), FALSE)
            IN  /\ r.ok /\ IsSome(r.self.id)
                /\ g.ok /\ g.found
                /\ g.value = r.self
                /\ g.value.amount = a /\ g.value.status = s

\* C2 witness: a POST has just saved an order whose status is not the default,
\* and get_by_id returns it with that status
C2_Witness ==
    /\ last = [method |-> "POST", code |-> 200, existed |-> FALSE]
    /\ seq \in DOMAIN rows
    /\ rows[seq] = Row("in-progress", 900)
    /\ Order_get_by_id(Db, seq, FALSE).value.status = InProgress

\* C3: with requests handled one at a time, PATCH /orders/{id} with the body of
\* a status s on an id that has a row responds 200 with an empty body, and
\* get_by_id(id) then returns an order of status s with the amount the row had,
\* whatever the row's status was.
C3_PatchPersistsStatus ==
    \A id \in DOMAIN rows, s \in OrderStatus :
        LET r == update_order_status(Db, id, PatchBodyOf(s), FALSE, FALSE)
            g == Order_get_by_id(r.db, id, FALSE)
        IN  /\ r.resp = OkEmpty
            /\ g.ok /\ g.found
            /\ g.value.status = s
            /\ g.value.amount = rows[id].amount

\* C3 witness: a PATCH has just answered 200 for a row that now is complete
C3_Witness ==
    /\ last = [method |-> "PATCH", code |-> 200, existed |-> TRUE]
    /\ \E id \in DOMAIN rows : rows[id].status = "complete"

\* C4: DELETE /orders/{id} on an id that has a row responds 200, removes that
\* row and no other, changes no other row; afterwards get_by_id(id) is None and
\* GET /orders/{id} responds 404; delete_by_id returns true exactly when the id
\* had a row.
C4_DeleteRemovesExactlyThatRow ==
    \A id \in PathIds :
        LET d == Order_delete_by_id(Db, id, FALSE)
            r == delete_order(Db, id, FALSE)
        IN  /\ d.ok /\ (d.value <=> id \in DOMAIN rows)
            /\ id \in DOMAIN rows =>
                 /\ r.resp = OkEmpty
                 /\ DOMAIN r.db.rows = DOMAIN rows \ {id}
                 /\ \A i \in DOMAIN r.db.rows : r.db.rows[i] = rows[i]
                 /\ r.db.seq = seq
                 /\ ~Order_get_by_id(r.db, id, FALSE).found
                 /\ get_order_by_id(r.db, id, FALSE).resp.code = 404

\* C4 witness: a DELETE has just answered 200, its row is gone and another row
\* is still there
C4_Witness ==
    /\ last = [method |-> "DELETE", code |-> 200, existed |-> TRUE]
    /\ \E id \in assigned : id \notin DOMAIN rows
    /\ DOMAIN rows # {}

\* C5: for every id without a row, GET, PATCH (with the body of any status) and
\* DELETE on /orders/{id} each respond 404 Record not found and leave the store
\* as it was; a DELETE repeated on the id responds 404 again.
C5_AbsentIdIsNotFound ==
    \A id \in PathIds \ DOMAIN rows :
        LET g == get_order_by_id(Db, id, FALSE)
            d == delete_order(Db, id, FALSE)
        IN  /\ g.resp = RecordNotFound /\ g.db = Db
            /\ \A s \in OrderStatus, fail2 \in BOOLEAN :
                 LET u == update_order_status(Db, id, PatchBodyOf(s), FALSE, fail2)
                 IN  u.resp = RecordNotFound /\ u.db = Db
            /\ d.resp = RecordNotFound /\ d.db = Db
            /\ delete_order(d.db, id, FALSE).resp = RecordNotFound
            /\ RecordNotFound.code = 404

\* C5 witness: a request on an id whose row was deleted has just answered 404
\* while other rows exist
C5_Witness ==
    /\ last = [method |-> "DELETE", code |-> 404, existed |-> FALSE]
    /\ \E id \in assigned : id \notin DOMAIN rows
    /\ DOMAIN rows # {}

\* C6: POST /orders with a body that has an amount and neither status nor id
\* responds 200, inserts one row and returns the order with an assigned id, the
\* amount and status Pending.
C6_PostAmountOnlyAccepted ==
    \A a \in Amounts :
        LET body == [id |-> JAbsent, amount |-> JInt(a), status |-> JAbsent]
            r == create_order(Db, body, FALSE)
        IN  /\ r.resp.code = 200 /\ r.resp.kind = "order"
            /\ IsSome(r.resp.orders[1].id)
            /\ AddsOneRow(Db, r.db, Unwrap(r.resp.orders[1].id))
            /\ r.resp.orders[1].amount = a
            /\ r.resp.orders[1].status = OrderStatus_serialize(Pending)

\* C7: on the wire a status is its lowercase hyphenated string, the one written
\* to storage: a body with such a string decodes to the matching variant, PATCH
\* with it on an existing id responds 200, and a response writes a status as
\* that string.
C7_WireStatusIsStorageString ==
    \A s \in OrderStatus :
        LET body == [id |-> JAbsent, amount |-> JAbsent,
                     status |-> JStr(OrderStatus_to_string(s))]
        IN  /\ OrderStatus_to_string(s) \in LowerNames
            /\ OrderStatus_deserialize(OrderStatus_to_string(s)) = Some(s)
            /\ OrderStatus_serialize(s) = OrderStatus_to_string(s)
            /\ \A id \in DOMAIN rows :
                 /\ update_order_status(Db, id, body, FALSE, FALSE).resp.code = 200
                 /\ get_order_by_id(Db, id, FALSE).resp.orders[1].status \in LowerNames

\* C8: POST /orders with a body that has an id inserts one new row under a
\* freshly assigned id, returns that id and changes no existing row, whether or
\* not the body's id has a row.
C8_PostIgnoresBodyId ==
    \A body \in PostBodies :
        body.id.kind = "int" /\ Order_deserialize(body).ok =>
            LET r == create_order(Db, body, FALSE)
            IN  /\ r.resp.code = 200 /\ r.resp.kind = "order"
                /\ IsSome(r.resp.orders[1].id)
                /\ Unwrap(r.resp.orders[1].id) \notin assigned
                /\ AddsOneRow(Db, r.db, Unwrap(r.resp.orders[1].id))

\* a body that neither encoding of the spec nor of the code can read: an
\* amount that is no integer, or a status string that names no status
Malformed(body) ==
    \/ body.amount.kind = "str"
    \/ body.status.kind = "str" /\ body.status.str \notin VariantNames \cup LowerNames

\* C9: a POST or PATCH whose body is malformed is answered 422 and no query is
\* issued for it: the store is as before, also when the PATCH is on an id that
\* has a row.
C9_MalformedBodyRejected ==
    /\ \A body \in PostBodies, fail \in BOOLEAN :
         Malformed(body) =>
            LET r == create_order(Db, body, fail)
            IN  r.resp.code = 422 /\ r.ops = << >> /\ r.db = Db
    /\ \A id \in PathIds, body \in PatchBodies, fail1 \in BOOLEAN, fail2 \in BOOLEAN :
         Malformed(body) =>
            LET r == update_order_status(Db, id, body, fail1, fail2)
            IN  r.resp.code = 422 /\ r.ops = << >> /\ r.db = Db

\* C9 witness: a PATCH on an id that has a row has just been answered 422
C9_Witness ==
    /\ last = [method |-> "PATCH", code |-> 422, existed |-> TRUE]
    /\ DOMAIN rows # {}

\* a failed query of the run r of a handler ended it with 500 and the fixed
\* body, as the last query issued, the store as before
FailureIs500(r) ==
    (\E k \in 1..Len(r.ops) : ~r.ops[k].ok) =>
        /\ r.resp = Response(500, "text", << >>, "Something went wrong!")
        /\ \A k \in 1..Len(r.ops) : ~r.ops[k].ok => k = Len(r.ops)
        /\ r.db = Db

\* a 404 of the run r of a handler on id follows one successful query, a
\* get_by_id or a delete_by_id, on an id without a row
NotFoundIsAbsence(r, id) ==
    r.resp.code = 404 =>
        /\ r.ops \in {<<Op("get_by_id", TRUE)>>, <<Op("delete_by_id", TRUE)>>}
        /\ id \notin DOMAIN rows

\* C10: in every handler a failed query ends the request with 500 and the body
\* "Something went wrong!" (never 404, never 200): the failed query is the last
\* one the handler issues and the store is as before it; 404 is sent only after
\* a get_by_id or delete_by_id that succeeded on an id without a row.
C10_StoreFailureIs500 ==
    /\ \A f \in BOOLEAN :
         LET r == get_orders(Db, f)
         IN  FailureIs500(r) /\ r.resp.code # 404
    /\ \A body \in PostBodies, f \in BOOLEAN :
         LET r == create_order(Db, body, f)
         IN  FailureIs500(r) /\ r.resp.code # 404
    /\ \A id \in PathIds, f \in BOOLEAN :
         /\ LET r == get_order_by_id(Db, id, f)
            IN  FailureIs500(r) /\ NotFoundIsAbsence(r, id)
         /\ LET r == delete_order(Db, id, f)
            IN  FailureIs500(r) /\ NotFoundIsAbsence(r, id)
         /\ \A body \in PatchBodies, f2 \in BOOLEAN :
              LET r == update_order_status(Db, id, body, f, f2)
              IN  FailureIs500(r) /\ NotFoundIsAbsence(r, id)

\* C10 witness: a PATCH on an id that has a row has just been answered 500
C10_Witness ==
    /\ last = [method |-> "PATCH", code |-> 500, existed |-> TRUE]
    /\ DOMAIN rows # {}


\* the store after n orders were saved, one after the other, into db
RECURSIVE SaveN(_, _)
SaveN(db, n) ==
    IF n = 0 THEN db
    ELSE Order_save(Order_new(500), SaveN(db, n - 1), FALSE).db

\* C11: get_all returns exactly the rows of the store, each rowid once, as the
\* orders these rows decode to, and GET /orders answers 200 with them (the empty
\* list on the empty store); after N inserting saves on the empty store it
\* returns N entries.
C11_GetAllReturnsTheRows ==
    LET g == Order_get_all(Db, FALSE)
        r == get_orders(Db, FALSE)
    IN  /\ g.ok
        /\ Len(g.value) = Cardinality(DOMAIN rows)
        /\ {Unwrap(g.value[i].id) : i \in 1..Len(g.value)} = DOMAIN rows
        /\ \A i \in 1..Len(g.value) :
             g.value[i] = FromRow(Unwrap(g.value[i].id), rows[Unwrap(g.value[i].id)])
        /\ r.resp = OkOrders(g.value) /\ r.resp.code = 200 /\ r.db = Db
        /\ Len(r.resp.orders) = Cardinality(DOMAIN rows)
        /\ \A n \in 0..(MaxSeq + 1) :
             Len(Order_get_all(SaveN(EmptyDb, n), FALSE).value) = n

\* C11 witness: GET /orders has just answered 200 on a store with two rows
C11_Witness ==
    /\ last = [method |-> "GET", code |-> 200, existed |-> FALSE]
    /\ Cardinality(DOMAIN rows) = 2
    /\ Len(Order_get_all(Db, FALSE).value) = 2

\* C12: a save of an order whose id has no row (never assigned, or deleted
\* since) returns Ok, inserts nothing and changes nothing: the store is as
\* before and get_by_id(id) still finds nothing.
C12_SaveOfAbsentIdIsNoOp ==
    \A id \in PathIds \ DOMAIN rows, a \in Amounts, s \in OrderStatus :
        LET order == [id |-> Some(id), amount |-> a, status |-> s]
            r == Order_save(order, Db, FALSE)
        IN  /\ r.ok
            /\ r.self = order
            /\ r.db = Db
            /\ ~Order_get_by_id(r.db, id, FALSE).found

\* C12 witness: a POST whose body named an id without a row has just been
\* answered 200, and the newest rowid, deleted before, still has no row
C12_Witness ==
    /\ last = [method |-> "POST", code |-> 200, existed |-> FALSE]
    /\ seq >= 1 /\ seq \notin DOMAIN rows
    /\ DOMAIN rows # {}

\* C13: a save of an order whose id has a row updates that row in place: the
\* order keeps its id, the store keeps its rowids, every other row is as before,
\* and get_by_id(id) then returns the order's amount and status.
C13_SaveOfExistingIdUpdatesInPlace ==
    \A id \in DOMAIN rows, a \in Amounts, s \in OrderStatus :
        LET order == [id |-> Some(id), amount |-> a, status |-> s]
            r == Order_save(order, Db, FALSE)
            g == Order_get_by_id(r.db, id, FALSE)
        IN  /\ r.ok
            /\ r.self.id = Some(id)
            /\ DOMAIN r.db.rows = DOMAIN rows
            /\ r.db.seq = seq
            /\ \A i \in DOMAIN rows \ {id} : r.db.rows[i] = rows[i]
            /\ g.found /\ g.value.amount = a /\ g.value.status = s

\* C13 witness: a POST whose body named an existing id has just been answered
\* 200 and two rows of different content are in the store
C13_Witness ==
    /\ last = [method |-> "POST", code |-> 200, existed |-> TRUE]
    /\ Cardinality(DOMAIN rows) = 2
    /\ \E i \in DOMAIN rows, j \in DOMAIN rows : rows[i] # rows[j]

\* C14: the storage encoding of status round-trips on the four variants and
\* defaults elsewhere: decoding the text to_string produced gives the status
\* back, two different statuses have different texts, and decoding a text that
\* is none of the four encodings gives Pending.
C14_StatusCodecRoundTrip ==
    /\ codec.back # None => Unwrap(codec.back) = codec.status
    /\ (codec.encoded # << >> /\ codec.status # codec.other)
         => codec.encoded[1] # codec.encoded[2]
    /\ codec.encoded # << >> => codec.encoded[1] \in LowerNames
    /\ codec.decoded # None => Unwrap(codec.decoded) \in OrderStatus
    /\ (codec.decoded # None /\ codec.text \notin LowerNames)
         => Unwrap(codec.decoded) = Pending

\* C14 witness: Canceled was encoded and decoded back, next to a different
\* status, and the text "Canceled" (the variant name) was decoded
C14_Witness ==
    /\ codec.status = Canceled /\ codec.other = Complete
    /\ codec.back = Some(Canceled)
    /\ codec.text = "Canceled" /\ codec.decoded = Some(Pending)

\* the positions in ops of the operations that write the store
Writes(ops) == {k \in 1..Len(ops) : ops[k].op \in {"save", "delete_by_id"}}

\* the run r of a handler issued one operation at most, and changed the store
\* only by that operation
OneOperation(r) ==
    /\ Len(r.ops) <= 1
    /\ r.db # Db => r.ops \in {<<Op("save", TRUE)>>, <<Op("delete_by_id", TRUE)>>}

\* C15 (as stated): every run of every handler, PATCH included, issues at most
\* one store operation.
C15_AtMostOneStoreOperation ==
    /\ \A f \in BOOLEAN : Len(get_orders(Db, f).ops) <= 1
    /\ \A body \in PostBodies, f \in BOOLEAN : Len(create_order(Db, body, f).ops) <= 1
    /\ \A id \in PathIds, f \in BOOLEAN :
         /\ Len(get_order_by_id(Db, id, f).ops) <= 1
         /\ Len(delete_order(Db, id, f).ops) <= 1
         /\ \A body \in PatchBodies, f2 \in BOOLEAN :
              Len(update_order_status(Db, id, body, f, f2).ops) <= 1

\* C15 (amended): GET, POST and DELETE issue at most one store operation.
\* PATCH issues two on an id that has a row: a get_by_id that succeeds, then a
\* save, and only one of them writes. In every handler the store changes only
\* by the last operation, so a handler has no store state between two writes
\* of its own.
C15_AtMostOneWrite ==
    /\ \A f \in BOOLEAN : OneOperation(get_orders(Db, f))
    /\ \A body \in PostBodies, f \in BOOLEAN : OneOperation(create_order(Db, body, f))
    /\ \A id \in PathIds, f \in BOOLEAN :
         /\ OneOperation(get_order_by_id(Db, id, f))
         /\ OneOperation(delete_order(Db, id, f))
         /\ \A body \in PatchBodies, f2 \in BOOLEAN :
              LET r == update_order_status(Db, id, body, f, f2)
                  n == Len(r.ops)
              IN  /\ n <= 2
                  /\ Cardinality(Writes(r.ops)) <= 1
                  /\ n = 2 <=> (/\ UpdateOrderStatusRequest_deserialize(body).ok
                                /\ ~f
                                /\ id \in DOMAIN rows)
                  /\ n = 2 => /\ r.ops[1] = Op("get_by_id", TRUE)
                              /\ r.ops[2] = Op("save", ~f2)
                  /\ r.db # Db => r.ops[n] = Op("save", TRUE)

\* C15 witness: a PATCH on an existing id has just been answered 200 after its
\* two operations, in a store of two rows
C15_Witness ==
    /\ last = [method |-> "PATCH", code |-> 200, existed |-> TRUE]
    /\ Cardinality(DOMAIN rows) = 2
    /\ \E id \in DOMAIN rows :
         update_order_status(Db, id, PatchBodyOf(Complete), FALSE, FALSE).ops
             = <<Op("get_by_id", TRUE), Op("save", TRUE)>>

\* the store holding the single order of status s, as one save leaves it
StoreOfOne(s) == Order_save(Unsaved(500, s), EmptyDb, FALSE).db

\* C16: no status transition is refused: for every existing order, whatever
\* its status s, and every status t (t = s and s Complete or Canceled
\* included), a save of the order with status t and a PATCH to t both succeed
\* and the stored status becomes t.
C16_EveryTransitionAllowed ==
    /\ \A id \in DOMAIN rows, t \in OrderStatus :
         LET cur == FromRow(id, rows[id])
             r == Order_save([cur EXCEPT !.status = t], Db, FALSE)
             p == update_order_status(Db, id, PatchBodyOf(t), FALSE, FALSE)
         IN  /\ r.ok
             /\ r.db.rows[id].status = OrderStatus_to_string(t)
             /\ p.resp = OkEmpty
             /\ p.db.rows[id].status = OrderStatus_to_string(t)
             /\ Order_get_by_id(p.db, id, FALSE).value.status = t
    /\ \A s \in OrderStatus, t \in OrderStatus :
         LET p == update_order_status(StoreOfOne(s), 1, PatchBodyOf(t), FALSE, FALSE)
         IN  /\ Order_get_by_id(StoreOfOne(s), 1, FALSE).value.status = s
             /\ p.resp = OkEmpty
             /\ Order_get_by_id(p.db, 1, FALSE).value.status = t

\* C16 witness: a PATCH has just been answered 200 and the store holds a
\* Canceled order that a PATCH takes back to Pending
C16_Witness ==
    /\ last = [method |-> "PATCH", code |-> 200, existed |-> TRUE]
    /\ \E id \in DOMAIN rows :
         /\ rows[id].status = "canceled"
         /\ update_order_status(Db, id, PatchBodyOf(Pending), FALSE, FALSE)
                .db.rows[id].status = "pending"

\* the store after the step
DbNext == [rows |-> rows', seq |-> seq']

\* C17: a deleted id is never retrievable again, whatever the interleaving of
\* requests, a PATCH that saves after the delete of the order it fetched
\* included: no step gives a row to an id that had one and lost it, so after
\* the step get_by_id finds nothing, GET /orders/{id} answers 404 and get_all
\* lists no order of that id.
C17_DeletedIdStaysAbsent ==
    [][\A id \in assigned \ DOMAIN rows :
          /\ id \notin DOMAIN rows'
          /\ ~Order_get_by_id(DbNext, id, FALSE).found
          /\ get_order_by_id(DbNext, id, FALSE).resp = RecordNotFound
          /\ \A i \in 1..Len(Order_get_all(DbNext, FALSE).value) :
               Order_get_all(DbNext, FALSE).value[i].id # Some(id)]_vars

\* C17 witness: a PATCH that fetched its order has just saved it and was
\* answered 200, yet the store is empty: the order was deleted in between
C17_Witness ==
    /\ last = [method |-> "PATCH", code |-> 200, existed |-> TRUE]
    /\ rows = EmptyDb.rows
    /\ assigned # {}
    /\ pending = EmptyBag

\* C18: a step that answers a PATCH leaves the rowids, every amount and all
\* rows but one as they were before the step, also when the amount of the row
\* was written after the PATCH fetched it.
C18_PatchKeepsAmount ==
    [][last'.method = "PATCH" =>
          /\ DOMAIN rows' = DOMAIN rows
          /\ \A id \in DOMAIN rows : rows'[id].amount = rows[id].amount
          /\ Cardinality({id \in DOMAIN rows : rows'[id] # rows[id]}) <= 1]_vars

====
